---- MODULE Spec2Model ----
(***************************************************************************)
(* Model of src/index.js of footballrankings: the name normalizer, the     *)
(* team directory and logo map of buildTeamLogosMap, the win/loss fold of  *)
(* /projections, the per-game averages of /stats and the poll scan of      *)
(* /polls.  Each forEach / for-of loop of the source is one action per     *)
(* iteration; the element a loop consumes is drawn from a small set.       *)
(*                                                                         *)
(* JavaScript strings are sequences of one-character strings.  The value   *)
(* undefined of a string-typed field is the one-element sequence Undefined *)
(* whose element is no character.                                          *)
(***************************************************************************)
EXTENDS Integers, Sequences, FiniteSets, TLC

VARIABLES
    pc,              \* position of the running handler
    teamsMeta,       \* TeamMeta list read so far by buildTeamLogosMap / stats
    bySchool,        \* Map: NormalizedKey -> entry
    byAbbr,          \* Map: NormalizedKey -> entry
    byAlt,           \* Map: NormalizedKey -> entry
    teamLogos,       \* object: raw name -> logo or Null
    name,            \* the schedule name of the last forEach iteration
    nNames,          \* schedule names consumed
    ti,              \* index of the supplementary pass into teamsMeta
    games,           \* games folded so far
    baseRecords,     \* object: team -> [wins, losses]
    completedCounts, \* object: NormalizedKey -> count
    row,             \* the stat row of the current forEach iteration
    nRows,           \* stat rows consumed
    stat,            \* the stat entry of the last inner forEach iteration
    nStats,          \* stat entries of the current row consumed
    rowsByTeam,      \* object: team -> (stat name -> average)
    rankings,        \* /polls: the rankings payload
    mode,            \* /polls: mode after line 262
    sorted,          \* /polls: rankings sorted by week
    si,              \* /polls: scan position in sorted
    weeks,           \* /polls: buckets pushed
    latest,          \* /polls: <<>> for null, else <<bucket>>
    renderWeeks      \* /polls: what is handed to the view

vars == <<pc, teamsMeta, bySchool, byAbbr, byAlt, teamLogos, name, nNames, ti,
          games, baseRecords, completedCounts, row, nRows, stat, nStats,
          rowsByTeam, rankings, mode, sorted, si, weeks, latest, renderWeeks>>

logoVars    == <<teamsMeta, bySchool, byAbbr, byAlt, teamLogos, name, nNames, ti>>
recordVars  == <<games, baseRecords>>
statVars    == <<completedCounts, row, nRows, stat, nStats, rowsByTeam>>
pollVars    == <<rankings, mode, sorted, si, weeks, latest, renderWeeks>>

----------------------------------------------------------------------------
(* Bounds of the model. *)
MaxTeams == 2
MaxNames == 2

----------------------------------------------------------------------------
(* JavaScript values. *)

Undefined == <<"undefined">>
Null      == "null"
EmptyMap  == <<>>

StrUndefined == <<"u","n","d","e","f","i","n","e","d">>

\* Boolean coercion of a string-or-undefined value: "" and undefined are falsy.
Truthy(s) == s # Undefined /\ s # <<>>

\* `${x}` of a string-or-undefined value.
Template(s) == IF s = Undefined THEN StrUndefined ELSE s

MapHas(m, k) == k \in DOMAIN m
\* A set that keeps the value a key already has.
MapSetKeepFirst(m, k, v) ==
    [x \in (DOMAIN m) \cup {k} |-> IF x \in DOMAIN m THEN m[x] ELSE v]

MapSet(m, k, v) == [x \in (DOMAIN m) \cup {k} |-> IF x = k THEN v ELSE m[x]]

----------------------------------------------------------------------------
(* norm, src/index.js 76-81. *)

UpperChars == <<"A","B","C","D","E","F","G","H","I","J","K","L","M",
                "N","O","P","Q","R","S","T","U","V","W","X","Y","Z">>
LowerChars == <<"a","b","c","d","e","f","g","h","i","j","k","l","m",
                "n","o","p","q","r","s","t","u","v","w","x","y","z">>
DigitChars == <<"0","1","2","3","4","5","6","7","8","9">>

Range(s) == {s[i] : i \in DOMAIN s}

\* String.prototype.toLowerCase on one ASCII character.
toLowerCase(c) ==
    IF c \in Range(UpperChars)
    THEN LowerChars[CHOOSE i \in DOMAIN UpperChars : UpperChars[i] = c]
    ELSE c

\* [a-z0-9]
IsAlnum(c) == c \in Range(LowerChars) \cup Range(DigitChars)

RECURSIVE ReplaceAmp(_)
\* .replace(/&/g, 'and')
ReplaceAmp(s) ==
    IF s = <<>> THEN <<>>
    ELSE (IF Head(s) = "&" THEN <<"a","n","d">> ELSE <<Head(s)>>)
         \o ReplaceAmp(Tail(s))

norm(s) ==
    LET str   == IF Truthy(s) THEN s ELSE <<>>
        lower == [i \in DOMAIN str |-> toLowerCase(str[i])]
    IN  SelectSeq(ReplaceAmp(lower), IsAlnum)

----------------------------------------------------------------------------
(* name.replace(/\s*\([^)]*\)\s*/g, ''), src/index.js 111. *)

IsSpace(c) == c \in {" "}

\* Positions of s, at or after from, holding character c.
Positions(s, c, from) == {i \in DOMAIN s : i >= from /\ s[i] = c}

Min(S) == CHOOSE x \in S : \A y \in S : x <= y

\* First position of the white space run that ends just before position i.
RunStart(s, i) ==
    Min({j \in 1..i : \A k \in j..(i-1) : IsSpace(s[k])})

\* Last position of the white space run that starts just after position i.
RunEnd(s, i) ==
    CHOOSE j \in i..Len(s) :
        /\ \A k \in (i+1)..j : IsSpace(s[k])
        /\ (j = Len(s) \/ ~IsSpace(s[j+1]))

RECURSIVE StripParens(_)
\* The leftmost match starts at the white space before the first "(" that has
\* a ")" after it and ends with the white space after the first such ")".
StripParens(s) ==
    LET opens == {i \in Positions(s, "(", 1) : Positions(s, ")", i + 1) # {}}
    IN  IF opens = {} THEN s
        ELSE LET open  == Min(opens)
                 close == Min(Positions(s, ")", open + 1))
                 first == RunStart(s, open)
                 last  == RunEnd(s, close)
             IN  SubSeq(s, 1, first - 1)
                 \o StripParens(SubSeq(s, last + 1, Len(s)))

----------------------------------------------------------------------------
(* Inputs of buildTeamLogosMap. *)

\* An array-typed TeamMeta field: an array, or something that is no array.
Arr(items) == [isArray |-> TRUE, items |-> items]
NotArray   == [isArray |-> FALSE, items |-> <<>>]

TeamMeta(school, abbreviation, alternateNames, mascot, logos) ==
    [school |-> school, abbreviation |-> abbreviation,
     alternateNames |-> alternateNames, mascot |-> mascot, logos |-> logos]

\* Team metadata records: schools "A", "a", "B", "b", "AND", "" and none; keys
\* that collide between teams and between the three indices.
TeamDom ==
    { TeamMeta(<<"A">>, Undefined, Arr(<<>>), Undefined, Arr(<<"L1">>)),
      TeamMeta(<<"a">>, Undefined, NotArray, Undefined, Arr(<<>>)),
      TeamMeta(<<"B">>, <<"A","B">>, Arr(<< <<"A"," ","B">> >>), Undefined,
               Arr(<<"L2","L1">>)),
      TeamMeta(<<"A">>, <<"B">>, Arr(<<>>), <<"B">>, NotArray),
      TeamMeta(Undefined, <<"A","B">>, Arr(<< <<"&">>, <<"B">> >>), <<"b">>,
               Arr(<<"L3">>)),
      TeamMeta(<<"A","N","D">>, Undefined, Arr(<< <<"a",".">> >>), Undefined,
               Arr(<<"L2">>)),
      TeamMeta(<<>>, <<>>, Arr(<<>>), Undefined, Arr(<<"L1">>)),
      TeamMeta(<<"b">>, <<"a","b">>, Arr(<< <<"a","b">> >>), Undefined,
               Arr(<<"L3">>)) }

\* Raw schedule names.
NameDom ==
    { <<"A">>, <<"a",".">>, <<"A"," ","(","B",")">>, <<"A"," ","B">>,
      <<"A","B">>, <<"a","b">>, <<"B">>, <<"B","(","A",")">>, <<"&">> }

----------------------------------------------------------------------------
(* buildTeamLogosMap, src/index.js 84-125. *)

\* Array.isArray(t.logos) && t.logos.length ? t.logos[0] : null
primaryLogo(t) ==
    IF t.logos.isArray /\ Len(t.logos.items) > 0 THEN t.logos.items[1] ELSE Null

entryOf(t) ==
    [school |-> t.school, abbreviation |-> t.abbreviation,
     alternateNames |-> IF t.alternateNames.isArray
                        THEN t.alternateNames.items ELSE <<>>,
     logo |-> primaryLogo(t)]

RECURSIVE SetAll(_, _, _)
\* entry.alternateNames.forEach(a => byAlt.set(norm(a), entry))
SetAll(m, alts, entry) ==
    IF alts = <<>> THEN m
    ELSE SetAll(MapSet(m, norm(Head(alts)), entry), Tail(alts), entry)

\* The lookup chain of lines 107-113 with the abbreviation index read under
\* the raw name instead of the normalized key.
hitRawAbbr(n) ==
    LET k == norm(n)
    IN  IF MapHas(bySchool, k) THEN <<bySchool[k]>>
        ELSE IF MapHas(byAlt, k) THEN <<byAlt[k]>>
        ELSE IF MapHas(bySchool, norm(StripParens(n)))
             THEN <<bySchool[norm(StripParens(n))]>>
        ELSE IF MapHas(byAbbr, n) THEN <<byAbbr[n]>>
        ELSE <<>>

\* The lookup chain of lines 107-113 with the abbreviation index tried
\* before the alternate-name index.
hitAbbrFirst(n) ==
    LET k == norm(n)
    IN  IF MapHas(bySchool, k) THEN <<bySchool[k]>>
        ELSE IF MapHas(byAbbr, k) THEN <<byAbbr[k]>>
        ELSE IF MapHas(byAlt, k) THEN <<byAlt[k]>>
        ELSE IF MapHas(bySchool, norm(StripParens(n)))
             THEN <<bySchool[norm(StripParens(n))]>>
        ELSE <<>>

\* let hit = bySchool.get(k) || byAlt.get(k) || bySchool.get(norm(stripped))
\*           || byAbbr.get(k): <<>> for undefined, else <<entry>> (an entry
\* is an object, so it is truthy).
hit(n) ==
    LET k == norm(n)
    IN  IF MapHas(bySchool, k) THEN <<bySchool[k]>>
        ELSE IF MapHas(byAlt, k) THEN <<byAlt[k]>>
        ELSE IF MapHas(bySchool, norm(StripParens(n)))
             THEN <<bySchool[norm(StripParens(n))]>>
        ELSE IF MapHas(byAbbr, k) THEN <<byAbbr[k]>>
        ELSE <<>>

\* hit && hit.logo ? hit.logo : null
resolveLogo(n) ==
    LET h == hit(n)
    IN  IF h # <<>> /\ h[1].logo # Null /\ h[1].logo # "" THEN h[1].logo
        ELSE Null

InitLogos ==
    /\ teamsMeta = <<>>
    /\ bySchool = EmptyMap /\ byAbbr = EmptyMap /\ byAlt = EmptyMap
    /\ teamLogos = EmptyMap
    /\ name = Undefined
    /\ nNames = 0
    /\ ti = 0

\* One iteration of teamsMeta.forEach, lines 90-102.
IndexTeam ==
    /\ pc = "index"
    /\ Len(teamsMeta) < MaxTeams
    /\ \E t \in TeamDom :
        LET entry == entryOf(t)
            alts  == SetAll(byAlt, entry.alternateNames, entry)
        IN  /\ teamsMeta' = Append(teamsMeta, t)
            /\ bySchool' = IF Truthy(t.school)
                           THEN MapSet(bySchool, norm(t.school), entry)
                           ELSE bySchool
            /\ byAbbr' = IF Truthy(t.abbreviation)
                         THEN MapSet(byAbbr, norm(t.abbreviation), entry)
                         ELSE byAbbr
            /\ byAlt' = IF Truthy(t.mascot)
                        THEN MapSet(alts,
                                    norm(Template(t.school) \o <<" ">>
                                         \o Template(t.mascot)),
                                    entry)
                        ELSE alts
    /\ UNCHANGED <<pc, teamLogos, name, nNames, ti>>
    /\ UNCHANGED <<recordVars, statVars, pollVars>>

\* teamsMeta is exhausted: line 104.
IndexDone ==
    /\ pc = "index"
    /\ pc' = "resolve"
    /\ UNCHANGED <<logoVars, recordVars, statVars, pollVars>>

\* One iteration of fbsTeams.forEach, lines 105-116.
ResolveName ==
    /\ pc = "resolve"
    /\ nNames < MaxNames
    /\ \E n \in NameDom :
        /\ name' = n
        /\ teamLogos' = MapSet(teamLogos, n, resolveLogo(n))
    /\ nNames' = nNames + 1
    /\ UNCHANGED <<pc, teamsMeta, bySchool, byAbbr, byAlt, ti>>
    /\ UNCHANGED <<recordVars, statVars, pollVars>>

\* fbsTeams is exhausted: line 119.
ResolveDone ==
    /\ pc = "resolve"
    /\ pc' = "supplement"
    /\ ti' = 1
    /\ UNCHANGED <<teamsMeta, bySchool, byAbbr, byAlt, teamLogos, name, nNames>>
    /\ UNCHANGED <<recordVars, statVars, pollVars>>

\* !teamLogos[t.school]: the property is absent, or its value is null or "".
noLogoAt(school) ==
    \/ ~MapHas(teamLogos, school)
    \/ teamLogos[school] = Null
    \/ teamLogos[school] = ""

\* One iteration of the second teamsMeta.forEach, lines 119-122.
SupplementTeam ==
    /\ pc = "supplement"
    /\ ti <= Len(teamsMeta)
    /\ LET t == teamsMeta[ti]
       IN  teamLogos' = IF Truthy(t.school) /\ noLogoAt(t.school)
                        THEN MapSet(teamLogos, t.school, primaryLogo(t))
                        ELSE teamLogos
    /\ ti' = ti + 1
    /\ UNCHANGED <<pc, teamsMeta, bySchool, byAbbr, byAlt, name, nNames>>
    /\ UNCHANGED <<recordVars, statVars, pollVars>>

\* return teamLogos, line 124.
ReturnLogos ==
    /\ pc = "supplement"
    /\ ti > Len(teamsMeta)
    /\ pc' = "logosDone"
    /\ UNCHANGED <<logoVars, recordVars, statVars, pollVars>>

----------------------------------------------------------------------------
(* JSON values of untyped fields (scores, stat values). *)

Num(n)      == [t |-> "number", n |-> n, s |-> <<>>]
Str(s)      == [t |-> "string", n |-> 0, s |-> s]
Bool(b)     == [t |-> "boolean", n |-> IF b THEN 1 ELSE 0, s |-> <<>>]
JsNull      == [t |-> "null", n |-> 0, s |-> <<>>]
JsUndefined == [t |-> "undefined", n |-> 0, s |-> <<>>]

\* a ?? b
Nullish(v) == v.t \in {"null", "undefined"}
Coalesce(a, b) == IF Nullish(a) THEN b ELSE a

\* a || b on string-or-undefined values
Or(a, b) == IF Truthy(a) THEN a ELSE b

\* Number.isFinite(v): no coercion, so only a number is finite (JSON holds
\* no NaN and no Infinity).
NumberIsFinite(v) == v.t = "number"

----------------------------------------------------------------------------
(* Games, as /projections and /stats read them. *)

Game(home_team, homeTeam, away_team, awayTeam, home_points, homePoints, away_points, awayPoints) ==
    [home_team |-> home_team, homeTeam |-> homeTeam,
     away_team |-> away_team, awayTeam |-> awayTeam,
     home_points |-> home_points, homePoints |-> homePoints,
     away_points |-> away_points, awayPoints |-> awayPoints]

\* <<snake_case, camelCase>> pairs of a side's name and of a side's score.
HomeNames  == { <<<<"A">>, Undefined>>, <<Undefined, <<"B">>>>,
                <<<<>>, <<"A">>>> }
AwayNames  == { <<<<"B">>, Undefined>>, <<Undefined, <<"A">>>>,
                <<Undefined, Undefined>> }
HomeScores == { <<Num(2), JsUndefined>>, <<JsUndefined, Num(1)>>,
                <<JsNull, Num(2)>>, <<Str(<<"3">>), Num(1)>> }
AwayScores == { <<Num(1), JsUndefined>>, <<JsUndefined, Num(2)>>,
                <<JsNull, JsNull>> }

GameDom ==
    { Game(h[1], h[2], a[1], a[2], hs[1], hs[2], as[1], as[2]) :
        h \in HomeNames, a \in AwayNames, hs \in HomeScores, as \in AwayScores }

\* const hp = g.home_points ?? g.homePoints, and ap likewise.
hp(g) == Coalesce(g.home_points, g.homePoints)
ap(g) == Coalesce(g.away_points, g.awayPoints)

\* !(!Number.isFinite(hp) || !Number.isFinite(ap)), lines 171 and 215.
completed(g) == NumberIsFinite(hp(g)) /\ NumberIsFinite(ap(g))

\* g.home_team || g.homeTeam, and away likewise.
home(g) == Or(g.home_team, g.homeTeam)
away(g) == Or(g.away_team, g.awayTeam)

----------------------------------------------------------------------------
(* The baseRecords fold of /projections, src/index.js 167-178. *)

\* MaxGames bounds the games of one payload.
MaxGames == 2

\* baseRecords[team] = baseRecords[team] || { wins: 0, losses: 0 }
touch(recs, team) ==
    IF MapHas(recs, team) THEN recs
    ELSE MapSet(recs, team, [wins |-> 0, losses |-> 0])

win(recs, team)  == [recs EXCEPT ![team].wins = @ + 1]
loss(recs, team) == [recs EXCEPT ![team].losses = @ + 1]

\* hp > ap with the comparison taken as >=.
homeWinsOnTie(g) == hp(g).n >= ap(g).n

\* hp > ap
homeWins(g) == hp(g).n > ap(g).n

\* The body of the forEach with the two entries created before the scores
\* are looked at.
foldTouchFirst(recs, g) ==
    LET h  == Template(home(g))
        a  == Template(away(g))
        r2 == touch(touch(recs, h), a)
    IN  IF ~completed(g) THEN r2
        ELSE IF homeWins(g) THEN loss(win(r2, h), a)
        ELSE loss(win(r2, a), h)

\* The body of the forEach, lines 169-177; a property key is a string.
foldGame(recs, g) ==
    IF ~completed(g) THEN recs
    ELSE LET h  == Template(home(g))
             a  == Template(away(g))
             r2 == touch(touch(recs, h), a)
         IN  IF homeWins(g) THEN loss(win(r2, h), a)
             ELSE loss(win(r2, a), h)

InitRecords == games = <<>> /\ baseRecords = EmptyMap

\* One iteration of games.forEach, lines 168-178.
FoldGame ==
    /\ pc = "fold"
    /\ Len(games) < MaxGames
    /\ \E g \in GameDom :
        /\ games' = Append(games, g)
        /\ baseRecords' = foldGame(baseRecords, g)
    /\ UNCHANGED <<pc, logoVars, statVars, pollVars>>

\* games is exhausted: line 180.
FoldDone ==
    /\ pc = "fold"
    /\ pc' = "recordsDone"
    /\ UNCHANGED <<logoVars, recordVars, statVars, pollVars>>

----------------------------------------------------------------------------
(* Number(v), src/index.js 236, and the quotient val / gp, line 238. *)

\* NaN
NaN == [finite |-> FALSE, n |-> 0]
Finite(n) == [finite |-> TRUE, n |-> n]

DigitValue(c) == (CHOOSE i \in DOMAIN DigitChars : DigitChars[i] = c) - 1

RECURSIVE Decimal(_)
Decimal(s) ==
    IF s = <<>> THEN 0
    ELSE 10 * Decimal(SubSeq(s, 1, Len(s) - 1)) + DigitValue(s[Len(s)])

\* The string without the white space around it.
Trim(s) ==
    LET inked == {i \in DOMAIN s : ~IsSpace(s[i])}
    IN  IF inked = {} THEN <<>>
        ELSE SubSeq(s, Min(inked), CHOOSE i \in inked : \A j \in inked : j <= i)

\* Number(s) of a string: 0 for an empty or blank string, the value of a
\* string of decimal digits, NaN for a string with any other character
\* (signs, fractions and exponents are not among the strings drawn here).
StringToNumber(s) ==
    LET t == Trim(s)
    IN  IF t = <<>> THEN Finite(0)
        ELSE IF \A i \in DOMAIN t : t[i] \in Range(DigitChars)
             THEN Finite(Decimal(t))
        ELSE NaN

\* Number(v)
ToNumber(v) ==
    CASE v.t = "number"    -> Finite(v.n)
      [] v.t = "string"    -> StringToNumber(v.s)
      [] v.t = "boolean"   -> Finite(v.n)
      [] v.t = "null"      -> Finite(0)
      [] v.t = "undefined" -> NaN

RECURSIVE GCD(_, _)
GCD(a, b) == IF b = 0 THEN a ELSE GCD(b, a % b)

\* The quotient a / b of a value a >= 0 by a count b >= 1, as the fraction in
\* lowest terms.
Quotient(a, b) ==
    LET g == GCD(a, b) IN [num |-> a \div g, den |-> b \div g]

----------------------------------------------------------------------------
(* Inputs of /stats. *)

\* Bounds on the games, teams and stat rows of the payloads and on the stats
\* of one row.
MaxStatGames == 2
MaxStatTeams == 1
MaxRows      == 2
MaxStats     == 1
\* Games of the completedCounts fold: "A" against "B" finished and unfinished,
\* and "A" against "a.", one normalized key on both sides, finished.
StatGameDom ==
    { Game(<<"A">>, Undefined, Undefined, <<"B">>,
           Num(2), JsUndefined, JsUndefined, Num(2)),
      Game(<<"A">>, Undefined, Undefined, <<"B">>,
           Num(2), JsUndefined, JsNull, JsNull),
      Game(Undefined, <<"A">>, <<"a",".">>, Undefined,
           JsNull, Num(1), Num(2), JsUndefined) }

\* Teams of the FBS set: school "A", and a team without a school.
StatTeamDom ==
    { TeamMeta(<<"A">>, Undefined, Arr(<<>>), Undefined, Arr(<<"L1">>)),
      TeamMeta(Undefined, <<"A","B">>, Arr(<<>>), Undefined, Arr(<<>>)) }

StatRow(team, school, teamName, isArray) ==
    [team |-> team, school |-> school, teamName |-> teamName,
     statsIsArray |-> isArray]

\* Stat rows without their stats: named by team, by school, by teamName, or
\* unnamed; with a stats array or without.
RowDom ==
    { StatRow(<<"A">>, Undefined, Undefined, TRUE),
      StatRow(Undefined, <<"a",".">>, Undefined, TRUE),
      StatRow(<<>>, Undefined, <<"C">>, TRUE),
      StatRow(Undefined, Undefined, Undefined, TRUE),
      StatRow(<<"A">>, Undefined, Undefined, FALSE) }

StatEntry(statName, category, nm, value, st, statValue) ==
    [statName |-> statName, category |-> category, name |-> nm,
     value |-> value, stat |-> st, statValue |-> statValue]

\* Stat entries: the name and the value under each of their three keys,
\* values that are numbers, numeric and other strings, booleans, null, absent.
StatDom ==
    { StatEntry(<<"x">>, Undefined, Undefined, JsUndefined, JsUndefined, Num(6)),
      StatEntry(Undefined, <<"y">>, Undefined, JsNull, Str(<<"1","2">>),
                JsUndefined),
      StatEntry(<<"x">>, Undefined, Undefined, Str(<<>>), JsUndefined, JsUndefined),
      StatEntry(Undefined, Undefined, <<"x">>, Bool(TRUE), JsUndefined, JsUndefined),
      StatEntry(<<"x">>, Undefined, Undefined, Str(<<"a","b">>), JsUndefined,
                JsUndefined),
      StatEntry(<<"y">>, Undefined, Undefined, JsNull, JsUndefined, JsUndefined),
      StatEntry(Undefined, Undefined, Undefined, Num(6), JsUndefined, JsUndefined),
      StatEntry(<<"x">>, Undefined, Undefined, JsUndefined, JsUndefined, JsNull) }

NoRow  == StatRow(Undefined, Undefined, Undefined, FALSE)
NoStat == StatEntry(Undefined, Undefined, Undefined, JsUndefined, JsUndefined,
                    JsUndefined)

----------------------------------------------------------------------------
(* The completedCounts and rowsByTeam folds of /stats, src/index.js 210-240. *)

\* completedCounts[k] = (completedCounts[k] || 0) + 1
bump(counts, k) ==
    MapSet(counts, k, (IF MapHas(counts, k) THEN counts[k] ELSE 0) + 1)

\* The body of the forEach, lines 213-220.
countGame(counts, g) ==
    IF ~completed(g) THEN counts
    ELSE bump(bump(counts, norm(home(g))), norm(away(g)))

\* new Set(teamsMeta.map(t => norm(t.school)))
fbsSet == {norm(teamsMeta[i].school) : i \in DOMAIN teamsMeta}

\* const team = row.team || row.school || row.teamName
teamOf(r) == Or(Or(r.team, r.school), r.teamName)

\* fbsSet.has(key) with the test left out.
keptAlways(r) == TRUE

\* !(!fbsSet.has(key)), line 231
kept(r) == norm(teamOf(r)) \in fbsSet

\* Math.max(1, completedCounts[key] || 0) with the counts read under the raw
\* team name.
gpRawName(r) ==
    LET k == teamOf(r)
        c == IF MapHas(completedCounts, k) THEN completedCounts[k] ELSE 0
    IN  IF c > 1 THEN c ELSE 1

\* const gp = Math.max(1, completedCounts[key] || 0)
gp(r) ==
    LET k == norm(teamOf(r))
        c == IF MapHas(completedCounts, k) THEN completedCounts[k] ELSE 0
    IN  IF c > 1 THEN c ELSE 1

\* const name = s.statName || s.category || s.name
statNameOf(s) == Or(Or(s.statName, s.category), s.name)

\* const val = Number(s.value ?? s.stat ?? s.statValue)
val(s) == ToNumber(Coalesce(Coalesce(s.value, s.stat), s.statValue))

\* !(!name || !Number.isFinite(val)), line 237
stored(s) == Truthy(statNameOf(s)) /\ val(s).finite

InitStats ==
    /\ teamsMeta = <<>>
    /\ games = <<>>
    /\ completedCounts = EmptyMap
    /\ row = NoRow /\ nRows = 0
    /\ stat = NoStat /\ nStats = 0
    /\ rowsByTeam = EmptyMap

\* One iteration of games.forEach, lines 212-221.
CountGame ==
    /\ pc = "count"
    /\ Len(games) < MaxStatGames
    /\ \E g \in StatGameDom :
        /\ games' = Append(games, g)
        /\ completedCounts' = countGame(completedCounts, g)
    /\ UNCHANGED <<pc, teamsMeta, row, nRows, stat, nStats, rowsByTeam>>
    /\ UNCHANGED <<bySchool, byAbbr, byAlt, teamLogos, name, nNames, ti,
                   baseRecords, pollVars>>

\* games is exhausted; teamsMeta is read for fbsSet, line 223.
CountDone ==
    /\ pc = "count"
    /\ \E n \in 0..MaxStatTeams :
        \E teams \in [1..n -> StatTeamDom] : teamsMeta' = teams
    /\ pc' = "rows"
    /\ UNCHANGED <<games, completedCounts, row, nRows, stat, nStats, rowsByTeam>>
    /\ UNCHANGED <<bySchool, byAbbr, byAlt, teamLogos, name, nNames, ti,
                   baseRecords, pollVars>>

\* The start of one iteration of statsRows.forEach, lines 229-233: a row that
\* is not kept ends the iteration, a kept row gets its accumulator.
RowStart ==
    /\ pc = "rows"
    /\ nRows < MaxRows
    /\ \E r \in RowDom :
        /\ row' = r
        /\ IF ~kept(r)
           THEN /\ pc' = "rows"
                /\ rowsByTeam' = rowsByTeam
           ELSE /\ pc' = "stats"
                /\ rowsByTeam' =
                     IF MapHas(rowsByTeam, Template(teamOf(r))) THEN rowsByTeam
                     ELSE MapSet(rowsByTeam, Template(teamOf(r)), EmptyMap)
    /\ nRows' = nRows + 1
    /\ nStats' = 0
    /\ stat' = NoStat
    /\ UNCHANGED <<teamsMeta, games, completedCounts>>
    /\ UNCHANGED <<bySchool, byAbbr, byAlt, teamLogos, name, nNames, ti,
                   baseRecords, pollVars>>

\* One iteration of row.stats.forEach, lines 234-239.
StatStep ==
    /\ pc = "stats"
    /\ row.statsIsArray
    /\ nStats < MaxStats
    /\ \E s \in StatDom :
        /\ stat' = s
        /\ rowsByTeam' =
             IF ~stored(s) THEN rowsByTeam
             ELSE LET team == Template(teamOf(row))
                  IN  [rowsByTeam EXCEPT
                         ![team] = MapSet(@, statNameOf(s),
                                          Quotient(val(s).n, gp(row)))]
    /\ nStats' = nStats + 1
    /\ UNCHANGED <<pc, teamsMeta, games, completedCounts, row, nRows>>
    /\ UNCHANGED <<bySchool, byAbbr, byAlt, teamLogos, name, nNames, ti,
                   baseRecords, pollVars>>

\* row.stats is exhausted (or is no array): the iteration of the outer
\* forEach ends, and its row and stat with it.
RowEnd ==
    /\ pc = "stats"
    /\ pc' = "rows"
    /\ row' = NoRow
    /\ stat' = NoStat
    /\ nStats' = 0
    /\ UNCHANGED <<teamsMeta, games, completedCounts, nRows, rowsByTeam>>
    /\ UNCHANGED <<bySchool, byAbbr, byAlt, teamLogos, name, nNames, ti,
                   baseRecords, pollVars>>

\* statsRows is exhausted: line 242.
RowsDone ==
    /\ pc = "rows"
    /\ pc' = "statsDone"
    /\ UNCHANGED <<teamsMeta, games, completedCounts, row, nRows, stat, nStats,
                   rowsByTeam>>
    /\ UNCHANGED <<bySchool, byAbbr, byAlt, teamLogos, name, nNames, ti,
                   baseRecords, pollVars>>

----------------------------------------------------------------------------
(* Inputs of /polls. *)

\* MaxEntries bounds the entries of one rankings payload.
MaxEntries == 3

Rank(rank, team) == [rank |-> rank, team |-> team]
Poll(poll, ranks) == [poll |-> poll, ranks |-> ranks]
Ranking(week, polls) == [week |-> week, polls |-> polls]

\* The polls of one entry: absent, empty, AP alone, an FCS poll before the
\* coaches' poll, a poll whose name differs from AP's in case only, AP
\* without a ranks array before the coaches' poll.
PollsDom ==
    { NotArray,
      Arr(<<>>),
      Arr(<< Poll("AP Top 25", Arr(<<Rank(2, "B"), Rank(1, "A")>>)) >>),
      Arr(<< Poll("FCS Coaches Poll", Arr(<<Rank(1, "C")>>)),
             Poll("Coaches Poll", Arr(<<Rank(1, "A"), Rank(2, "B")>>)) >>),
      Arr(<< Poll("ap top 25", Arr(<<Rank(1, "A")>>)) >>),
      Arr(<< Poll("AP Top 25", NotArray),
             Poll("Coaches Poll", Arr(<<Rank(2, "A"), Rank(1, "B")>>)) >>) }

WeekDom == {JsUndefined, Num(1), Num(2)}

RankingDom == {Ranking(w, p) : w \in WeekDom, p \in PollsDom}

\* req.query.mode: absent, "all", "ALL", "latest", "week".
QueryModeDom ==
    { Undefined, <<"a","l","l">>, <<"A","L","L">>,
      <<"l","a","t","e","s","t">>, <<"w","e","e","k">> }

----------------------------------------------------------------------------
(* The scan of /polls, src/index.js 259-300. *)

ModeAll == <<"a","l","l">>

\* String(req.query.mode || 'latest').toLowerCase()
modeOf(q) ==
    LET str == IF Truthy(q) THEN q ELSE <<"l","a","t","e","s","t">>
    IN  [i \in DOMAIN str |-> toLowerCase(str[i])]

\* entry.week || 0 and Number(entry.week || 0), for a week that is a number
\* or absent.
weekOf(entry) == IF entry.week.t = "number" THEN entry.week.n ELSE 0

RECURSIVE Insert(_, _)
\* The pair x = <<key, item>> put into the sorted sequence q of such pairs
\* after every pair whose key is not greater: Array.prototype.sort is stable.
Insert(q, x) ==
    IF q = <<>> THEN <<x>>
    ELSE IF x[1] < Head(q)[1] THEN <<x>> \o q
    ELSE <<Head(q)>> \o Insert(Tail(q), x)

RECURSIVE SortPairs(_)
SortPairs(q) ==
    IF q = <<>> THEN <<>>
    ELSE Insert(SortPairs(SubSeq(q, 1, Len(q) - 1)), q[Len(q)])

\* .slice().sort((a,b) => (a.week||0) - (b.week||0))
sortByWeek(q) ==
    LET srt == SortPairs([i \in DOMAIN q |-> <<weekOf(q[i]), q[i]>>])
    IN  [i \in DOMAIN q |-> srt[i][2]]

\* .slice().sort((x,y) => x.rank - y.rank)
sortByRank(q) ==
    LET srt == SortPairs([i \in DOMAIN q |-> <<q[i].rank, q[i]>>])
    IN  [i \in DOMAIN q |-> srt[i][2]]

\* (entry.polls || []).find(p => p && p.poll === pollName): <<>> for
\* undefined, else <<poll>>.
find(entry, pollName) ==
    LET polls == entry.polls.items
        at    == {i \in DOMAIN polls : polls[i].poll = pollName}
    IN  IF at = {} THEN <<>> ELSE <<polls[Min(at)]>>

findAP(entry)      == find(entry, "AP Top 25")
findCoaches(entry) == find(entry, "Coaches Poll")

\* ap && Array.isArray(ap.ranks) ? sorted copy : []
ranksOf(found) ==
    IF found # <<>> /\ found[1].ranks.isArray
    THEN sortByRank(found[1].ranks.items)
    ELSE <<>>

\* const bucket = { week: weekNum, ap: [...], coaches: [...] }, lines 286-288
bucketOf(entry) ==
    [week |-> weekOf(entry),
     ap |-> ranksOf(findAP(entry)),
     coaches |-> ranksOf(findCoaches(entry))]

\* latest = bucket, but only while latest is still null.
latestKeepFirst(bucket) == IF latest # <<>> THEN latest ELSE <<bucket>>

\* latest = bucket, line 290
latestAfter(bucket) == <<bucket>>

InitPolls ==
    /\ rankings = <<>>
    /\ mode = <<>>
    /\ sorted = <<>>
    /\ si = 0
    /\ weeks = <<>>
    /\ latest = <<>>
    /\ renderWeeks = <<>>

\* The request: its mode, the rankings payload and the sort, lines 262-279.
\* A payload that is no array is read as the empty array.
SortRankings ==
    /\ pc = "request"
    /\ \E q \in QueryModeDom : mode' = modeOf(q)
    /\ \E n \in 0..MaxEntries :
        \E payload \in [1..n -> RankingDom] :
            /\ rankings' = payload
            /\ sorted' = sortByWeek(payload)
    /\ si' = 1
    /\ weeks' = <<>>
    /\ latest' = <<>>
    /\ pc' = "scan"
    /\ UNCHANGED <<renderWeeks, logoVars, recordVars, statVars>>

\* One iteration of the for-of loop that pushes a bucket, lines 281-291.
ScanEntry ==
    /\ pc = "scan"
    /\ si <= Len(sorted)
    /\ LET entry == sorted[si]
       IN  /\ ~(findAP(entry) = <<>> /\ findCoaches(entry) = <<>>)
           /\ latest' = latestAfter(bucketOf(entry))
           /\ weeks' = Append(weeks, bucketOf(entry))
    /\ si' = si + 1
    /\ UNCHANGED <<pc, rankings, mode, sorted, renderWeeks>>
    /\ UNCHANGED <<logoVars, recordVars, statVars>>

\* The iteration at an entry without a tracked poll, with the break of line
\* 284 taken as a continue.
ScanSkip ==
    /\ pc = "scan"
    /\ si <= Len(sorted)
    /\ findAP(sorted[si]) = <<>> /\ findCoaches(sorted[si]) = <<>>
    /\ si' = si + 1
    /\ UNCHANGED <<pc, rankings, mode, sorted, weeks, latest, renderWeeks>>
    /\ UNCHANGED <<logoVars, recordVars, statVars>>

\* The iteration that breaks, line 284: the entry has neither poll.
ScanBreak ==
    /\ pc = "scan"
    /\ si <= Len(sorted)
    /\ findAP(sorted[si]) = <<>> /\ findCoaches(sorted[si]) = <<>>
    /\ pc' = "render"
    /\ UNCHANGED <<rankings, mode, sorted, si, weeks, latest, renderWeeks>>
    /\ UNCHANGED <<logoVars, recordVars, statVars>>

\* sorted is exhausted.
ScanEnd ==
    /\ pc = "scan"
    /\ si > Len(sorted)
    /\ pc' = "render"
    /\ UNCHANGED <<rankings, mode, sorted, si, weeks, latest, renderWeeks>>
    /\ UNCHANGED <<logoVars, recordVars, statVars>>

\* const renderWeeks = mode === 'all' ? weeks : (latest ? [latest] : [])
Render ==
    /\ pc = "render"
    /\ renderWeeks' = IF mode = ModeAll THEN weeks ELSE latest
    /\ pc' = "pollsDone"
    /\ UNCHANGED <<rankings, mode, sorted, si, weeks, latest>>
    /\ UNCHANGED <<logoVars, recordVars, statVars>>

----------------------------------------------------------------------------
(* The handlers that are idle while buildTeamLogosMap runs. *)

IdleLogos == InitLogos
IdleRecords == InitRecords
IdleStats ==
    /\ completedCounts = EmptyMap
    /\ row = NoRow /\ nRows = 0 /\ stat = NoStat /\ nStats = 0
    /\ rowsByTeam = EmptyMap
IdlePolls == InitPolls

\* buildTeamLogosMap called on its own (as /teams does, lines 137-138).
InitTeams == pc = "index" /\ InitLogos /\ IdleRecords /\ IdleStats /\ IdlePolls
NextLogos ==
    \/ IndexTeam
    \/ IndexDone
    \/ ResolveName
    \/ ResolveDone
    \/ SupplementTeam
    \/ ReturnLogos
SpecLogos == InitTeams /\ [][NextLogos]_vars

----------------------------------------------------------------------------
(* Claims about buildTeamLogosMap. *)

Lookup(m, k) == IF MapHas(m, k) THEN <<m[k]>> ELSE <<>>

\* The four lookups of the fallback chain, in the order of the chain.
Chain(n) ==
    << Lookup(bySchool, norm(n)),
       Lookup(byAlt, norm(n)),
       Lookup(bySchool, norm(StripParens(n))),
       Lookup(byAbbr, norm(n)) >>

\* The logo of the first entry the chain finds, Null when the chain finds no
\* entry or that entry has no logo.
ChainLogo(n) ==
    LET c     == Chain(n)
        found == {i \in 1..4 : c[i] # <<>>}
    IN  IF found = {} THEN Null
        ELSE c[Min(found)][1].logo

\* C1: while the schedule names are being resolved, every value written into
\* the logo map is the primary logo of the first entry found by trying the
\* school index, the alternate-name index, the school index under the name
\* without its parenthesized parts, and the abbreviation index, in that order;
\* it is null when no index has an entry or the first entry has no logo.
C1_FallbackChain ==
    pc = "resolve" =>
        \A n \in DOMAIN teamLogos : teamLogos[n] = ChainLogo(n)

\* The abbreviation index and the alternate-name index both hold the key of a
\* resolved name, with different logos, and the name got the alternate one;
\* and a name was resolved through the parenthesis-stripping step.
C1_Witness ==
    /\ pc = "resolve"
    /\ \E n \in DOMAIN teamLogos :
        /\ Chain(n)[1] = <<>> /\ Chain(n)[2] # <<>> /\ Chain(n)[4] # <<>>
        /\ Chain(n)[2][1].logo # Chain(n)[4][1].logo
        /\ teamLogos[n] = Chain(n)[2][1].logo
    /\ \E n \in DOMAIN teamLogos :
        /\ Chain(n)[1] = <<>> /\ Chain(n)[2] = <<>> /\ Chain(n)[3] # <<>>
        /\ teamLogos[n] # Null

\* C2 as stated: two resolved names with the same normalized key have the
\* same value in the logo map.
C2_SameKeySameLogo ==
    pc = "resolve" =>
        \A n1, n2 \in DOMAIN teamLogos :
            norm(n1) = norm(n2) => teamLogos[n1] = teamLogos[n2]

\* C2 (amended): two resolved names with the same normalized key, whose
\* normalized keys after the removal of the parenthesized parts are the same
\* too, have the same value in the logo map.
C2_SameKeysSameLogo ==
    pc = "resolve" =>
        \A n1, n2 \in DOMAIN teamLogos :
            (/\ norm(n1) = norm(n2)
             /\ norm(StripParens(n1)) = norm(StripParens(n2)))
            => teamLogos[n1] = teamLogos[n2]

\* Two different raw names with the same keys, resolved to the same logo.
C2_Witness ==
    /\ pc = "resolve"
    /\ \E n1, n2 \in DOMAIN teamLogos :
        /\ n1 # n2
        /\ norm(n1) = norm(n2)
        /\ norm(StripParens(n1)) = norm(StripParens(n2))
        /\ teamLogos[n1] # Null
        /\ teamLogos[n1] = teamLogos[n2]

\* C3: an iteration of the supplementary pass leaves every entry that the
\* logo map already has, an explicit null included, at its value.
C3_SupplementOnlyAdds ==
    [][pc = "supplement" =>
        \A n \in DOMAIN teamLogos :
            n \in DOMAIN teamLogos' /\ teamLogos'[n] = teamLogos[n]]_vars

\* The keys a team record produces for each of the three indices.
SchoolKeys(t) == IF Truthy(t.school) THEN {norm(t.school)} ELSE {}

AbbrKeys(t) == IF Truthy(t.abbreviation) THEN {norm(t.abbreviation)} ELSE {}

AltKeys(t) ==
    (IF t.alternateNames.isArray
     THEN {norm(a) : a \in Range(t.alternateNames.items)} ELSE {})
    \cup (IF Truthy(t.mascot)
          THEN {norm(Template(t.school) \o <<" ">> \o Template(t.mascot))}
          ELSE {})

\* The positions of the list whose team produces key k.
Producers(Keys(_), k) == {i \in DOMAIN teamsMeta : k \in Keys(teamsMeta[i])}

Max(S) == CHOOSE x \in S : \A y \in S : y <= x

\* The index holds exactly the keys produced, each with the entry of the
\* last team of the list that produces it.
LastWriteWins(index, Keys(_)) ==
    /\ \A i \in DOMAIN teamsMeta : Keys(teamsMeta[i]) \subseteq DOMAIN index
    /\ \A k \in DOMAIN index :
        /\ Producers(Keys, k) # {}
        /\ index[k] = entryOf(teamsMeta[Max(Producers(Keys, k))])

\* Two teams of the list produce the same key with different entries.
Collision(Keys(_)) ==
    \E i, j \in DOMAIN teamsMeta :
        /\ i < j
        /\ Keys(teamsMeta[i]) \cap Keys(teamsMeta[j]) # {}
        /\ entryOf(teamsMeta[i]) # entryOf(teamsMeta[j])

\* The three indices are last-write-wins for the team list.
AllLastWriteWins ==
    /\ LastWriteWins(bySchool, SchoolKeys)
    /\ LastWriteWins(byAbbr, AbbrKeys)
    /\ LastWriteWins(byAlt, AltKeys)

\* C11: when the index pass over a team list ends, each of the three indices
\* holds, under every key, the entry of the last team of the list that
\* produces that key for that index, every team of the list has been
\* indexed, and the list and the indices stay as they are from then on.
C11_LastWriteWins ==
    [][pc' \in {"resolve", "supplement", "logosDone"} =>
        IF pc = "index" THEN AllLastWriteWins'
        ELSE UNCHANGED <<teamsMeta, bySchool, byAbbr, byAlt>>]_vars

\* The index pass has ended over a list with a collision in each index.
C11_Witness ==
    /\ pc = "resolve"
    /\ Collision(SchoolKeys)
    /\ Collision(AbbrKeys)
    /\ Collision(AltKeys)

----------------------------------------------------------------------------
(* The fold of /projections over a games payload. *)

InitProjections ==
    pc = "fold" /\ IdleLogos /\ InitRecords /\ IdleStats /\ IdlePolls
NextRecords ==
    \/ FoldGame
    \/ FoldDone
SpecRecords == InitProjections /\ [][NextRecords]_vars

----------------------------------------------------------------------------
(* Claims about the baseRecords fold. *)

\* The sides of a completed game that the claim gives the win and the loss.
Winner(g) == IF hp(g).n > ap(g).n THEN Template(home(g)) ELSE Template(away(g))
Loser(g)  == IF hp(g).n > ap(g).n THEN Template(away(g)) ELSE Template(home(g))

WinsOf(team) ==
    Cardinality({i \in DOMAIN games :
                    completed(games[i]) /\ Winner(games[i]) = team})
LossesOf(team) ==
    Cardinality({i \in DOMAIN games :
                    completed(games[i]) /\ Loser(games[i]) = team})

\* The property keys under which the games folded so far name a side.
SideKeys == UNION {{Template(home(games[i])), Template(away(games[i]))} :
                      i \in DOMAIN games}

\* C4: after any number of games folded, each team's wins are the completed
\* games so far in which it is the home side with the strictly greater score
\* or the away side otherwise, and its losses those in which it is the other
\* side; a team without an entry has none of either.
C4_RecordsCountGames ==
    \A team \in SideKeys \cup DOMAIN baseRecords :
        IF MapHas(baseRecords, team)
        THEN /\ baseRecords[team].wins = WinsOf(team)
             /\ baseRecords[team].losses = LossesOf(team)
        ELSE WinsOf(team) = 0 /\ LossesOf(team) = 0

\* A tie was folded as an away win, and a home win was folded too.
C4_Witness ==
    /\ pc = "recordsDone"
    /\ \E i, j \in DOMAIN games :
        /\ completed(games[i]) /\ hp(games[i]).n = ap(games[i]).n
        /\ baseRecords[Template(away(games[i]))].wins >= 1
        /\ completed(games[j]) /\ hp(games[j]).n > ap(games[j]).n
        /\ home(games[j]) # away(games[i])
        /\ baseRecords[Template(home(games[j]))].wins >= 1

\* C5: the teams that have an entry are exactly the sides of the completed
\* games folded so far, so a game with a missing or non-finite score adds no
\* entry, and every entry has at least one win or loss.
C5_IncompleteGamesSkipped ==
    /\ DOMAIN baseRecords =
         UNION {{Template(home(games[i])), Template(away(games[i]))} :
                   i \in {j \in DOMAIN games : completed(games[j])}}
    /\ \A team \in DOMAIN baseRecords :
         baseRecords[team].wins + baseRecords[team].losses >= 1

\* A team whose only game is incomplete is absent while another team has an
\* entry.
C5_Witness ==
    /\ pc = "recordsDone"
    /\ \E i, j \in DOMAIN games :
        /\ ~completed(games[i]) /\ completed(games[j])
        /\ ~MapHas(baseRecords, Template(home(games[i])))
        /\ MapHas(baseRecords, Template(home(games[j])))

----------------------------------------------------------------------------
(* The folds of /stats over a games payload, a teams payload and a stats    *)
(* payload.                                                                 *)

InitStatsRoute ==
    /\ pc = "count"
    /\ InitStats
    /\ bySchool = EmptyMap /\ byAbbr = EmptyMap /\ byAlt = EmptyMap
    /\ teamLogos = EmptyMap /\ name = Undefined /\ nNames = 0 /\ ti = 0
    /\ baseRecords = EmptyMap
    /\ IdlePolls
NextStats ==
    \/ CountGame
    \/ CountDone
    \/ RowStart
    \/ StatStep
    \/ RowEnd
    \/ RowsDone
SpecStats == InitStatsRoute /\ [][NextStats]_vars

----------------------------------------------------------------------------
(* Claims about the folds of /stats. *)

\* The value of a stat entry as the payload gives it, under the first of its
\* three keys that is not null or absent.
RawValue(s) == Coalesce(Coalesce(s.value, s.stat), s.statValue)

IsDigits(str) == str # <<>> /\ \A i \in DOMAIN str : str[i] \in Range(DigitChars)

\* The entry has a numeric value: a number, or a string of decimal digits.
Numeric(s) ==
    \/ RawValue(s).t = "number"
    \/ RawValue(s).t = "string" /\ IsDigits(RawValue(s).s)

NumericValue(s) ==
    IF RawValue(s).t = "number" THEN RawValue(s).n ELSE Decimal(RawValue(s).s)

\* A step that consumes one stat entry of a kept row.
EntryStep == pc = "stats" /\ nStats' = nStats + 1

\* The completed games so far in which key k is the home or the away side.
GamesWith(k) ==
    Cardinality({i \in DOMAIN games :
                    /\ completed(games[i])
                    /\ (norm(home(games[i])) = k \/ norm(away(games[i])) = k)})

\* The sides of completed games so far whose key is k: a game with k on both
\* sides has two.
SidesWith(k) ==
    Cardinality({i \in DOMAIN games :
                    completed(games[i]) /\ norm(home(games[i])) = k})
    + Cardinality({i \in DOMAIN games :
                    completed(games[i]) /\ norm(away(games[i])) = k})

AtLeastOne(n) == IF n >= 1 THEN n ELSE 1

NormSchools == {norm(teamsMeta[i].school) : i \in DOMAIN teamsMeta}

\* C9: a step adds a team to the output, or changes a team's stats, only for
\* the team of the row of the current iteration and only when that row's
\* normalized team name is a normalized school name; no team is removed.
C9_OnlyFbsRows ==
    [][/\ DOMAIN rowsByTeam \subseteq DOMAIN rowsByTeam'
       /\ \A team \in DOMAIN rowsByTeam' :
            (\/ team \notin DOMAIN rowsByTeam
             \/ rowsByTeam'[team] # rowsByTeam[team])
            => /\ team = Template(teamOf(row'))
               /\ norm(teamOf(row')) \in NormSchools]_vars

\* A row outside the FBS set has just been dropped, after a row that was kept
\* and has stats, and with the team list not empty.
C9_Witness ==
    /\ pc = "rows" /\ row # NoRow /\ nRows = 2
    /\ teamsMeta # <<>>
    /\ norm(teamOf(row)) \notin NormSchools
    /\ Template(teamOf(row)) \notin DOMAIN rowsByTeam
    /\ \E team \in DOMAIN rowsByTeam : rowsByTeam[team] # EmptyMap

\* C10: an entry whose value is missing or is no number (null, absent, a
\* boolean, an empty or non-numeric string) leaves the output as it is, and a
\* named entry with a numeric value gets its key.
C10_BadValuesSkipped ==
    [][EntryStep =>
        /\ ~Numeric(stat') => rowsByTeam' = rowsByTeam
        /\ (Numeric(stat') /\ Truthy(statNameOf(stat'))) =>
             MapHas(rowsByTeam'[Template(teamOf(row))], statNameOf(stat'))]_vars

----------------------------------------------------------------------------
(* The scan of /polls over a rankings payload. *)

InitPollsRoute ==
    /\ pc = "request"
    /\ InitPolls
    /\ IdleLogos /\ IdleRecords /\ IdleStats
NextPolls ==
    \/ SortRankings
    \/ ScanEntry
    \/ ScanBreak
    \/ ScanEnd
    \/ Render
SpecPolls == InitPollsRoute /\ [][NextPolls]_vars

----------------------------------------------------------------------------
(* Claims about the scan of /polls. *)

\* The entry holds a poll named exactly 'AP Top 25' or exactly 'Coaches Poll'.
Tracked(entry) ==
    \E i \in DOMAIN entry.polls.items :
        entry.polls.items[i].poll \in {"AP Top 25", "Coaches Poll"}

\* The week of an entry, a missing week counted as 0.
WeekKey(entry) == IF entry.week = JsUndefined THEN 0 ELSE entry.week.n

\* The length of the longest prefix of sorted whose entries are all tracked.
TrackedPrefix ==
    CHOOSE n \in 0..Len(sorted) :
        /\ \A i \in 1..n : Tracked(sorted[i])
        /\ (n = Len(sorted) \/ ~Tracked(sorted[n + 1]))

\* q is p with its elements in another order, equal keys kept in p's order.
StableSorted(p, q) ==
    /\ Len(p) = Len(q)
    /\ \A i, j \in DOMAIN q : i < j => WeekKey(q[i]) <= WeekKey(q[j])
    /\ \A w \in {WeekKey(p[i]) : i \in DOMAIN p} :
         SelectSeq(p, LAMBDA e : WeekKey(e) = w)
         = SelectSeq(q, LAMBDA e : WeekKey(e) = w)

\* C6: with mode "all" the view gets, for the payload sorted ascending by
\* week, the buckets of exactly the longest prefix whose entries each hold a
\* tracked poll, one bucket per entry in that order, and nothing of any
\* later entry.
C6_AllIsTrackedPrefix ==
    (pc = "pollsDone" /\ mode = ModeAll) =>
        /\ StableSorted(rankings, sorted)
        /\ Len(renderWeeks) = TrackedPrefix
        /\ \A i \in 1..TrackedPrefix : renderWeeks[i] = bucketOf(sorted[i])

\* The sort changed the order, one bucket was emitted, the scan stopped at
\* the second entry, and the third entry holds a tracked poll.
C6_Witness ==
    /\ pc = "pollsDone" /\ mode = ModeAll
    /\ rankings # sorted
    /\ Len(sorted) = 3 /\ Len(renderWeeks) = 1
    /\ ~Tracked(sorted[2]) /\ Tracked(sorted[3])

\* C7: with mode "latest" the view gets nothing when the scan pushed no
\* bucket, and otherwise the last bucket pushed, alone.
C7_LatestIsLastOfAll ==
    (pc = "pollsDone" /\ mode # ModeAll) =>
        renderWeeks = IF weeks = <<>> THEN <<>> ELSE <<weeks[Len(weeks)]>>

\* Mode "latest" rendered the second of two different buckets.
C7_Witness ==
    /\ pc = "pollsDone" /\ mode = <<"l","a","t","e","s","t">>
    /\ Len(weeks) = 2 /\ weeks[1] # weeks[2]
    /\ renderWeeks = <<weeks[2]>>

----------------------------------------------------------------------------
(* The server: each request runs one of the handlers from its start. *)

Init == InitTeams \/ InitProjections \/ InitStatsRoute \/ InitPollsRoute
Next == NextLogos \/ NextRecords \/ NextStats \/ NextPolls
Spec == Init /\ [][Next]_vars

====
